---- MODULE Spec2Model ----
(***************************************************************************)
(* HyperCardCreator (src/unnamed/part_002): the payment-gated card job     *)
(* lifecycle of santa-bonfire.  One creator instance, its React state, the *)
(* polling interval handles, and the asynchronous operations it has        *)
(* started (price fetch, signer, purchase POST, status GETs), together     *)
(* with the backend whose HTTP contract it consumes.                       *)
(*                                                                         *)
(* JavaScript is single threaded: every action below is one task of the    *)
(* event loop (a user event, a timer tick, or the continuation that runs   *)
(* when an awaited promise settles) together with the microtasks and the   *)
(* React commit that follow it.                                            *)
(***************************************************************************)
EXTENDS Integers, FiniteSets, Sequences, Bags, TLC

\* ---------------------------------------------------------------- bounds
\* Number of job ids the backend hands out.
MaxJobs == 2
\* Number of status requests outstanding beyond which no interval fires.
MaxInflight == 2
\* Saturation of the notification / listener call counters.
MaxCount == 2

\* ---------------------------------------------------------------- values
\* null of a numeric cell (hypercardId, pollingIntervalRef, wordCount)
Null == 0
\* null of a string cell (error, htnProgress)
None == "null"
\* null of the preview cell
NoPreview == <<>>

Jobs == 1 .. MaxJobs

\* The generation_status values of HyperBlogInfo.
Statuses == {"generating", "completed", "failed"}
Terminal == {"completed", "failed"}

\* htn_progress payloads a status response may carry (None: no payload).
Progress == {"h1", "h2"}

\* word_count / preview of a completed job: the service writes a different
\* card for every job.
ResultOf(j) == [word_count |-> 419 + j, preview |-> <<"preview", j>>]
NoResult == [word_count |-> Null, preview |-> NoPreview]

\* The theme text, by its run lengths: `core` characters between the first
\* and the last non-blank one, `pad` blanks around them.
Queries == {[pad |-> 0, core |-> 0],
            [pad |-> 2, core |-> 24]}
EmptyQuery == [pad |-> 0, core |-> 0]
Length(q) == q.pad + q.core
TrimLength(q) == q.core

MinQueryLen == 3
MaxQueryLen == 500

\* Prices in thousandths of a dollar; undefined is a missing prop / field.
Undef == [kind |-> "undefined", mills |-> 0]
Num(m) == [kind |-> "num", mills |-> m]
DataroomPrices == {Undef, Num(9990)}
\* Body of GET /api/datarooms/{id}: current_hyperblog_price_usd (parsed), price_usd
DataroomBodies == {[current |-> Num(9990), base |-> Num(2000)]}

\* Error messages
ErrConnect == "Please connect your wallet to create a card"
ErrBonfire == "Failed to fetch bonfire details"
ErrSigning == "Payment signing cancelled or failed"
ErrCreate == "Failed to create card"
ErrFailed == "Card creation failed. Please try again."
ErrNetwork == "network error"
ErrDetail == "backend detail"

VARIABLES
    isOpen,              \* prop: the modal is open
    userQuery,           \* useState: theme text
    isLoading,           \* useState
    error,               \* useState
    hypercardId,         \* useState: id of the tracked job
    generationStatus,    \* useState
    wordCount,           \* useState
    preview,             \* useState
    htnProgress,         \* useState
    showProgressModal,   \* useState
    pollingIntervalRef,  \* useRef: handle of the interval, named by the job it polls
    timers,              \* interval handles that are installed and not cleared
    submits,             \* bag: suspended handleSubmit invocations
    polls,               \* bag: outstanding GET /api/hyperblogs/{id}
    backend,             \* the generation service: job id -> status and result
    onSuccessCalls,      \* per job: onSuccess invocations made by the creator
    failNotifications,   \* per job: "Card creation failed" notifications
    stopped,             \* stopPolling ran and startPolling has not run since
    terminalSeen,        \* jobs for which a terminal status response was processed
    last,                \* the event whose processing led to this state, if any
    \* ChristmasPostcard and the asset-generation routes
    blog,                      \* prop: image_prompt and banner_url of the card
    bannerUrl,                 \* useState
    isBannerLoading,           \* useState
    bannerError,               \* useState
    hasAttemptedAutoGenerate,  \* useState
    calls,                     \* bag: POSTs to an asset route that are under way
    \* HyperCardFeed
    cards,               \* useState: ids of the cards shown
    cardsRef,            \* useRef: the cards as of the last run of the sync effect
    abortControllerRef,  \* useRef: the controller, named by its request
    currentOffset,       \* useState
    isLoadingMore,       \* useState
    feedLoading,         \* useState isLoading of the feed
    totalCount,          \* useState
    feedError,           \* useState error of the feed (set or not)
    selectedStatusFilter,\* useState
    listRequests,        \* list requests whose promise has not settled
    started              \* number of list requests started so far

\* HyperCardCreator
creator == <<isOpen, userQuery, isLoading, error, hypercardId, generationStatus,
             wordCount, preview, htnProgress, showProgressModal,
             pollingIntervalRef, timers, submits, polls, backend,
             onSuccessCalls, failNotifications, stopped, terminalSeen>>
postcard == <<blog, bannerUrl, isBannerLoading, bannerError,
              hasAttemptedAutoGenerate, calls>>
feed == <<cards, cardsRef, abortControllerRef, currentOffset, isLoadingMore,
          feedLoading, totalCount, feedError, selectedStatusFilter,
          listRequests, started>>

vars == <<creator, last, postcard, feed>>

tracked == <<generationStatus, htnProgress, wordCount, preview, error,
             showProgressModal, pollingIntervalRef, timers>>

Event(act, job, status) == [act |-> act, job |-> job, status |-> status]
Other == Event("other", Null, "none")

Inc(n) == IF n < MaxCount THEN n + 1 ELSE n

\* ---------------------------------------------------------------- helpers
\* line 97
isQueryValid == TrimLength(userQuery) >= MinQueryLen /\ Length(userQuery) <= MaxQueryLen

\* isLoading of usePaymentHeader: a signing interaction is in progress
isSigningPayment == \E s \in BagToSet(submits) : s.stage = "sign"

RECURSIVE SumCopies(_, _)
SumCopies(S, B) ==
    IF S = {} THEN 0
    ELSE LET x == CHOOSE y \in S : TRUE
         IN  CopiesIn(x, B) + SumCopies(S \ {x}, B)

\* number of outstanding status requests for job j
Outstanding(j) == SumCopies({r \in BagToSet(polls) : r.job = j}, polls)

Suspended == BagCardinality(submits)

\* jobs the backend has created so far are 1 .. Created
Created == Cardinality({j \in Jobs : backend[j].status # "none"})

One(x) == SetToBag({x})

\* priceUsd.toFixed(2): cents, rounded half up
ToFixed2(p) == (p.mills + 5) \div 10

IsPositive(p) == p.kind = "num" /\ p.mills > 0

\* The interval ref with the set of live intervals.
Polling(ref, live) == [ref |-> ref, live |-> live]

\* A stopPolling that clears the interval and keeps the stale handle.
StopPollingKeepsRef(t) ==
    [ref |-> t.ref,
     live |-> IF t.ref # Null THEN t.live \ {t.ref} ELSE t.live]

\* stopPolling, lines 107-112
StopPolling(t) ==
    [ref |-> Null,
     live |-> IF t.ref # Null THEN t.live \ {t.ref} ELSE t.live]

\* stopPolling, lines 107-112: the timers left
StopPollingTimers == StopPolling(Polling(pollingIntervalRef, timers)).live

\* No postcard is mounted and no asset request is under way.
PostcardUnmounted ==
    /\ blog = [mounted |-> FALSE, image_prompt |-> FALSE, banner_url |-> None]
    /\ bannerUrl = None
    /\ isBannerLoading = FALSE
    /\ bannerError = FALSE
    /\ hasAttemptedAutoGenerate = FALSE
    /\ calls = EmptyBag

\* No feed is mounted: the initial values of lines 106-125.
FeedUnmounted ==
    /\ cards = <<>>
    /\ cardsRef = <<>>
    /\ abortControllerRef = Null
    /\ currentOffset = 0
    /\ isLoadingMore = FALSE
    /\ feedLoading = TRUE
    /\ totalCount = 0
    /\ feedError = FALSE
    /\ selectedStatusFilter = None
    /\ listRequests = {}
    /\ started = 0

Init ==
    /\ isOpen = FALSE
    /\ userQuery = EmptyQuery
    /\ isLoading = FALSE
    /\ error = None
    /\ hypercardId = Null
    /\ generationStatus = "idle"
    /\ wordCount = Null
    /\ preview = NoPreview
    /\ htnProgress = None
    /\ showProgressModal = FALSE
    /\ pollingIntervalRef = Null
    /\ timers = {}
    /\ submits = EmptyBag
    /\ polls = EmptyBag
    /\ backend = [j \in Jobs |-> [status |-> "none", result |-> NoResult]]
    /\ onSuccessCalls = [j \in Jobs |-> 0]
    /\ failNotifications = [j \in Jobs |-> 0]
    /\ stopped = FALSE
    /\ terminalSeen = {}
    /\ last = Other
    /\ PostcardUnmounted
    /\ FeedUnmounted

ghosts == <<onSuccessCalls, failNotifications, stopped, terminalSeen>>
result == <<hypercardId, generationStatus, wordCount, preview, htnProgress, showProgressModal>>
timer == <<pollingIntervalRef, timers>>

\* ---------------------------------------------------------------- user
\* The parent sets isOpen (handleMakeCard / handleOpenHyperCardModal).
Open ==
    /\ ~isOpen
    /\ isOpen' = TRUE
    /\ last' = Other
    /\ UNCHANGED <<userQuery, isLoading, error, result, timer, submits, polls,
                   backend, ghosts>>
    /\ UNCHANGED <<postcard, feed>>

\* textarea onChange, lines 395-405 (disabled while loading or generating;
\* maxLength keeps the text within 500 characters)
SetUserQuery(q) ==
    /\ isOpen
    /\ ~(isLoading \/ generationStatus = "generating")
    /\ Length(q) <= MaxQueryLen
    /\ q # userQuery
    /\ userQuery' = q
    /\ last' = Other
    /\ UNCHANGED <<isOpen, isLoading, error, result, timer, submits, polls,
                   backend, ghosts>>
    /\ UNCHANGED <<postcard, feed>>

\* The reset effect of lines 61-78, run when isOpen has become false.
ResetOnClose ==
    /\ isOpen' = FALSE
    /\ userQuery' = EmptyQuery
    /\ isLoading' = FALSE
    /\ error' = None
    /\ hypercardId' = Null
    /\ generationStatus' = "idle"
    /\ wordCount' = Null
    /\ preview' = NoPreview
    /\ htnProgress' = None
    /\ showProgressModal' = FALSE
    /\ timers' = StopPollingTimers
    /\ pollingIntervalRef' = Null

\* handleClose, lines 313-316: stopPolling(), then onClose() makes the parent
\* set isOpen to false, and the reset effect runs in the same commit.
HandleClose ==
    /\ isOpen
    /\ ResetOnClose
    /\ stopped' = TRUE
    /\ last' = Other
    /\ UNCHANGED <<submits, polls, backend, onSuccessCalls, failNotifications,
                   terminalSeen>>
    /\ UNCHANGED <<postcard, feed>>

\* The "View Card" button, lines 504-514: onSuccess(hypercardId), handleClose().
ViewCard ==
    /\ isOpen
    /\ hypercardId # Null
    /\ generationStatus = "completed"
    /\ ResetOnClose
    /\ stopped' = TRUE
    /\ last' = Other
    /\ UNCHANGED <<submits, polls, backend, onSuccessCalls, failNotifications,
                   terminalSeen>>
    /\ UNCHANGED <<postcard, feed>>

\* onClose of the progress modal, line 531
CloseProgressModal ==
    /\ isOpen
    /\ showProgressModal
    /\ showProgressModal' = FALSE
    /\ last' = Other
    /\ UNCHANGED <<isOpen, userQuery, isLoading, error, hypercardId,
                   generationStatus, wordCount, preview, htnProgress, timer,
                   submits, polls, backend, ghosts>>
    /\ UNCHANGED <<postcard, feed>>

\* ---------------------------------------------------------------- submit
\* formatErrorMessage of lib/utils: the message of the Error, verbatim.
FormatErrorMessage(msg) == msg

\* A catch block that forgets setIsLoading(false).
SubmitFailsStillLoading(s, msg) ==
    /\ submits' = submits (-) One(s)
    /\ error' = FormatErrorMessage(msg)
    /\ last' = Event("submitError", Null, s.stage)
    /\ UNCHANGED <<isOpen, userQuery, isLoading, result, timer, polls, backend, ghosts>>
    /\ UNCHANGED <<postcard, feed>>

\* The catch block of handleSubmit, lines 294-299.
SubmitFails(s, msg) ==
    /\ submits' = submits (-) One(s)
    /\ error' = FormatErrorMessage(msg)
    /\ isLoading' = FALSE
    /\ last' = Event("submitError", Null, s.stage)
    /\ UNCHANGED <<isOpen, userQuery, result, timer, polls, backend, ghosts>>
    /\ UNCHANGED <<postcard, feed>>

\* A length check that turns away a text of exactly three characters.
SubmitRejectsThree(q) == TrimLength(q) <= MinQueryLen \/ Length(q) > MaxQueryLen

\* The length check of handleSubmit, line 185.
SubmitRejects(q) == TrimLength(q) < MinQueryLen \/ Length(q) > MaxQueryLen

\* handleSubmit up to its first await, lines 177-217.  connected: isConnected
\* and address of useAccount; price: the dataroomPrice prop.
HandleSubmit(connected, price) ==
    IF ~connected
    THEN /\ error' = ErrConnect
         /\ UNCHANGED <<isLoading, submits>>
    ELSE IF SubmitRejects(userQuery)
    THEN UNCHANGED <<error, isLoading, submits>>
    ELSE /\ isLoading' = TRUE
         /\ error' = None
         /\ submits' = submits (+)
               One(IF IsPositive(price)
                   THEN [stage |-> "sign", amount |-> ToFixed2(price)]
                   ELSE [stage |-> "price", amount |-> 0])

\* The "Create Card" button, lines 474-498: rendered while the wallet is
\* connected and no job is tracked, disabled while invalid, loading or signing.
ClickCreate(price) ==
    /\ isOpen
    /\ hypercardId = Null
    /\ ~(~isQueryValid \/ isLoading \/ isSigningPayment)
    /\ Created + Suspended < MaxJobs
    /\ HandleSubmit(TRUE, price)
    /\ last' = Other
    /\ UNCHANGED <<isOpen, userQuery, result, timer, polls, backend, ghosts>>
    /\ UNCHANGED <<postcard, feed>>

\* handleKeyDown, lines 319-333: Enter on the window while the modal is open.
PressEnter(connected, price) ==
    /\ isOpen
    /\ isQueryValid /\ ~isLoading /\ ~isSigningPayment
    /\ Created + Suspended < MaxJobs
    /\ HandleSubmit(connected, price)
    /\ last' = Other
    /\ UNCHANGED <<isOpen, userQuery, result, timer, polls, backend, ghosts>>
    /\ UNCHANGED <<postcard, feed>>

\* GET /api/datarooms/{id} fails or answers non-2xx, lines 200-203.
PriceFails(s) ==
    /\ s \in BagToSet(submits) /\ s.stage = "price"
    /\ SubmitFails(s, ErrBonfire)

\* A price resolution that ignores the current price of the dataroom.
FetchedPriceBaseOnly(body) == body.base

\* priceUsd of a fetched dataroom, lines 204-209.
FetchedPrice(body) == IF IsPositive(body.current) THEN body.current ELSE body.base

\* GET /api/datarooms/{id} answers, lines 204-217.
PriceArrives(s, body) ==
    /\ s \in BagToSet(submits) /\ s.stage = "price"
    /\ submits' = (submits (-) One(s)) (+)
                      One([stage |-> "sign", amount |-> ToFixed2(FetchedPrice(body))])
    /\ last' = Other
    /\ UNCHANGED <<isOpen, userQuery, isLoading, error, result, timer, polls,
                   backend, ghosts>>
    /\ UNCHANGED <<postcard, feed>>

\* buildAndSignPaymentHeader yields no header, lines 219-221.
SignFails(s) ==
    /\ s \in BagToSet(submits) /\ s.stage = "sign"
    /\ SubmitFails(s, ErrSigning)

\* buildAndSignPaymentHeader yields a header; the purchase POST is sent,
\* lines 223-241.
SignArrives(s) ==
    /\ s \in BagToSet(submits) /\ s.stage = "sign"
    /\ submits' = (submits (-) One(s)) (+) One([stage |-> "post", amount |-> s.amount])
    /\ last' = Other
    /\ UNCHANGED <<isOpen, userQuery, isLoading, error, result, timer, polls,
                   backend, ghosts>>
    /\ UNCHANGED <<postcard, feed>>

\* POST /api/hyperblogs/purchase throws or answers non-2xx, lines 243-246.
PurchaseFails(s, msg) ==
    /\ s \in BagToSet(submits) /\ s.stage = "post"
    /\ SubmitFails(s, msg)

\* A startPolling that installs the interval before its first poll.
StartPollingTimersEager == timers \cup {Created + 1}

\* startPolling up to its await, lines 116-168: the timers left by the
\* clearInterval of lines 118-120 (the ref itself is not reset there).
StartPollingTimers == IF pollingIntervalRef # Null THEN timers \ {pollingIntervalRef} ELSE timers

\* A first poll that asks for the id held in state instead of the returned one.
FirstPollOfTracked(j) ==
    [job |-> IF hypercardId # Null THEN hypercardId ELSE j, first |-> TRUE,
     sent |-> "generating"]

\* The request of the immediate pollStatus() of line 168, for the id handed
\* to startPolling.
FirstPoll(j) == [job |-> j, first |-> TRUE, sent |-> "generating"]

\* POST /api/hyperblogs/purchase answers 2xx with status generating,
\* lines 248-283: the job is tracked and startPolling issues its first poll.
PurchaseGenerating(s, htn) ==
    /\ s \in BagToSet(submits) /\ s.stage = "post"
    /\ LET j == Created + 1
       IN  /\ backend' = [backend EXCEPT ![j] = [status |-> "generating", result |-> NoResult]]
           /\ hypercardId' = j
           /\ generationStatus' = "generating"
           /\ showProgressModal' = TRUE
           /\ htnProgress' = IF htn # None THEN htn ELSE htnProgress
           /\ timers' = StartPollingTimers
           /\ polls' = polls (+) One(FirstPoll(j))
           /\ last' = Other
    /\ submits' = submits (-) One(s)
    /\ stopped' = FALSE
    /\ UNCHANGED <<isOpen, userQuery, isLoading, error, wordCount, preview,
                   pollingIntervalRef, onSuccessCalls, failNotifications,
                   terminalSeen>>
    /\ UNCHANGED <<postcard, feed>>

\* POST /api/hyperblogs/purchase answers 2xx with status completed,
\* lines 248-256 and 284-293.
PurchaseCompleted(s) ==
    /\ s \in BagToSet(submits) /\ s.stage = "post"
    /\ LET j == Created + 1
       IN  /\ backend' = [backend EXCEPT ![j] = [status |-> "completed", result |-> ResultOf(j)]]
           /\ hypercardId' = j
           /\ generationStatus' = "completed"
           /\ wordCount' = ResultOf(j).word_count
           /\ preview' = ResultOf(j).preview
           /\ onSuccessCalls' = [onSuccessCalls EXCEPT ![j] = Inc(@)]
           /\ last' = Other
    /\ submits' = submits (-) One(s)
    /\ isLoading' = FALSE
    /\ UNCHANGED <<isOpen, userQuery, error, htnProgress, showProgressModal,
                   timer, polls, failNotifications, stopped, terminalSeen>>
    /\ UNCHANGED <<postcard, feed>>

\* ---------------------------------------------------------------- polling
\* The tail of startPolling and of handleSubmit that runs when the awaited
\* first pollStatus() has settled, lines 168-171 and 293: the interval is
\* installed and its handle stored, then setIsLoading(false).
InstallTimers(r, ts) == IF r.first THEN ts \cup {r.job} ELSE ts
InstallRef(r, ref) == IF r.first THEN r.job ELSE ref
LoadingAfter(r) == IF r.first THEN FALSE ELSE isLoading

\* A catch block that gives up polling instead of waiting for the next tick.
TransientTimersCancelled == StopPollingTimers

\* What pollStatus does to the interval when the request fails (fetch throws
\* or the response is not ok), lines 126-129 and 161-164: nothing.
TransientTimers == timers
TransientRef == pollingIntervalRef

\* A status request fails: fetch throws, or the answer is non-2xx.
PollFails(r, how) ==
    /\ r \in BagToSet(polls)
    /\ polls' = polls (-) One(r)
    /\ timers' = InstallTimers(r, TransientTimers)
    /\ pollingIntervalRef' = InstallRef(r, TransientRef)
    /\ isLoading' = LoadingAfter(r)
    /\ last' = Event(IF r.first THEN "pollFirst" ELSE "pollTick", r.job, how)
    /\ UNCHANGED <<isOpen, userQuery, error, result, submits, backend, ghosts>>
    /\ UNCHANGED <<postcard, feed>>

\* The status a request can be answered with: the job's status at some time
\* between the sending of the request and the arrival of the answer.
Answers(r) == {r.sent, backend[r.job].status}

\* A pollStatus that stores the payload of every response, a missing one too.
ProgressAfterReplaced(htn) == htn

\* htnProgress after the update of lines 134-138.
ProgressAfter(htn) == IF htn # None THEN htn ELSE htnProgress

\* A status response with generation_status generating, lines 131-142.
PollGenerating(r, htn) ==
    /\ r \in BagToSet(polls)
    /\ "generating" \in Answers(r)
    /\ polls' = polls (-) One(r)
    /\ generationStatus' = "generating"
    /\ htnProgress' = ProgressAfter(htn)
    /\ showProgressModal' = TRUE
    /\ timers' = InstallTimers(r, timers)
    /\ pollingIntervalRef' = InstallRef(r, pollingIntervalRef)
    /\ isLoading' = LoadingAfter(r)
    /\ last' = Event(IF r.first THEN "pollFirst" ELSE "pollTick", r.job, "generating")
    /\ UNCHANGED <<isOpen, userQuery, error, hypercardId, wordCount, preview,
                   submits, backend, ghosts>>
    /\ UNCHANGED <<postcard, feed>>

\* A status response with generation_status completed, lines 131-153.
PollCompleted(r, htn) ==
    /\ r \in BagToSet(polls)
    /\ "completed" \in Answers(r)
    /\ polls' = polls (-) One(r)
    /\ generationStatus' = "completed"
    /\ wordCount' = backend[r.job].result.word_count
    /\ preview' = backend[r.job].result.preview
    /\ showProgressModal' = FALSE
    /\ htnProgress' = None
    /\ timers' = InstallTimers(r, StopPollingTimers)
    /\ pollingIntervalRef' = InstallRef(r, Null)
    /\ onSuccessCalls' = [onSuccessCalls EXCEPT ![r.job] = Inc(@)]
    /\ terminalSeen' = terminalSeen \cup {r.job}
    /\ stopped' = TRUE
    /\ isLoading' = LoadingAfter(r)
    /\ last' = Event(IF r.first THEN "pollFirst" ELSE "pollTick", r.job, "completed")
    /\ UNCHANGED <<isOpen, userQuery, error, hypercardId, submits, backend,
                   failNotifications>>
    /\ UNCHANGED <<postcard, feed>>

\* A status response with generation_status failed, lines 131-138 and 154-160.
PollFailed(r, htn) ==
    /\ r \in BagToSet(polls)
    /\ "failed" \in Answers(r)
    /\ polls' = polls (-) One(r)
    /\ generationStatus' = "failed"
    /\ showProgressModal' = FALSE
    /\ htnProgress' = None
    /\ timers' = InstallTimers(r, StopPollingTimers)
    /\ pollingIntervalRef' = InstallRef(r, Null)
    /\ error' = ErrFailed
    /\ failNotifications' = [failNotifications EXCEPT ![r.job] = Inc(@)]
    /\ terminalSeen' = terminalSeen \cup {r.job}
    /\ stopped' = TRUE
    /\ isLoading' = LoadingAfter(r)
    /\ last' = Event(IF r.first THEN "pollFirst" ELSE "pollTick", r.job, "failed")
    /\ UNCHANGED <<isOpen, userQuery, hypercardId, wordCount, preview, submits,
                   backend, onSuccessCalls>>
    /\ UNCHANGED <<postcard, feed>>

\* The interval of line 171 fires: pollStatus sends a status request.
Tick(t) ==
    /\ t \in timers
    /\ BagCardinality(polls) < MaxInflight
    /\ polls' = polls (+) One([job |-> t, first |-> FALSE, sent |-> backend[t].status])
    /\ last' = Other
    /\ UNCHANGED <<isOpen, userQuery, isLoading, error, result, timer, submits,
                   backend, ghosts>>
    /\ UNCHANGED <<postcard, feed>>

\* ---------------------------------------------------------------- backend
\* The generation service finishes a job.
BackendCompletes(j) ==
    /\ backend[j].status = "generating"
    /\ backend' = [backend EXCEPT ![j] = [status |-> "completed", result |-> ResultOf(j)]]
    /\ last' = Other
    /\ UNCHANGED <<isOpen, userQuery, isLoading, error, result, timer, submits,
                   polls, ghosts>>
    /\ UNCHANGED <<postcard, feed>>

BackendFails(j) ==
    /\ backend[j].status = "generating"
    /\ backend' = [backend EXCEPT ![j] = [status |-> "failed", result |-> NoResult]]
    /\ last' = Other
    /\ UNCHANGED <<isOpen, userQuery, isLoading, error, result, timer, submits,
                   polls, ghosts>>
    /\ UNCHANGED <<postcard, feed>>

\* ---------------------------------------------------------------- system
SubmitOps == {[stage |-> st, amount |-> a] :
                 st \in {"price", "sign", "post"}, a \in {0, 999}}
PollOps == {[job |-> j, first |-> f, sent |-> st] :
               j \in Jobs, f \in BOOLEAN, st \in Statuses}

Next ==
    \/ Open
    \/ \E q \in Queries : SetUserQuery(q)
    \/ HandleClose
    \/ ViewCard
    \/ CloseProgressModal
    \/ \E p \in DataroomPrices : ClickCreate(p)
    \/ \E c \in BOOLEAN, p \in DataroomPrices : PressEnter(c, p)
    \/ \E s \in SubmitOps : PriceFails(s)
    \/ \E s \in SubmitOps, b \in DataroomBodies : PriceArrives(s, b)
    \/ \E s \in SubmitOps : SignFails(s)
    \/ \E s \in SubmitOps : SignArrives(s)
    \/ \E s \in SubmitOps, m \in {ErrNetwork, ErrDetail, ErrCreate} : PurchaseFails(s, m)
    \/ \E s \in SubmitOps, h \in Progress \cup {None} : PurchaseGenerating(s, h)
    \/ \E s \in SubmitOps : PurchaseCompleted(s)
    \/ \E r \in PollOps, how \in {"network_error", "http_error"} : PollFails(r, how)
    \/ \E r \in PollOps, h \in Progress \cup {None} : PollGenerating(r, h)
    \/ \E r \in PollOps, h \in Progress \cup {None} : PollCompleted(r, h)
    \/ \E r \in PollOps, h \in Progress \cup {None} : PollFailed(r, h)
    \/ \E t \in Jobs : Tick(t)
    \/ \E j \in Jobs : BackendCompletes(j)
    \/ \E j \in Jobs : BackendFails(j)

Spec == Init /\ [][Next]_vars

\* ---------------------------------------------------------------- properties
PollActs == {"pollFirst", "pollTick"}
Transient == {"network_error", "http_error"}
\* the step into this state processed the answer (or the failure) of a status request
IsPoll(e) == e.act \in PollActs

Idle ==
    /\ hypercardId = Null
    /\ generationStatus = "idle"
    /\ wordCount = Null
    /\ preview = NoPreview
    /\ htnProgress = None

\* C1: at every instant at most one status request issued by pollStatus is
\* outstanding for a given job id (a tick that fires while the previous
\* request is unresolved issues no request).
C1_AtMostOnePollPerJob == \A j \in Jobs : Outstanding(j) <= 1

\* C2: after stopPolling() has been called, no further status request is
\* issued until a new submission starts polling again, also when the stop
\* happens while the first poll of startPolling is still awaited.
C2_NoRequestAfterStop ==
    [][(stopped /\ stopped') => BagCardinality(polls') <= BagCardinality(polls)]_vars

\* C3: a poll response issued for job A that arrives while the creator tracks
\* another job B changes none of B's tracked state (status, progress, result,
\* error, progress modal, polling timer).
C3_StaleResponseIgnored ==
    [][(IsPoll(last') /\ hypercardId # Null /\ hypercardId # last'.job)
          => UNCHANGED tracked]_vars

\* C4: once the creator has been reset (modal closed), the response of a
\* request started before neither moves it away from Idle nor installs a
\* polling timer.
C4_ClosedStaysIdle ==
    ~isOpen => (Idle /\ timers = {} /\ pollingIntervalRef = Null)

\* C5: once generationStatus is completed or failed for the current job, it
\* never changes to another value until the creator is reset.
C5_TerminalIsFinal ==
    [][(hypercardId # Null /\ generationStatus \in Terminal
          /\ hypercardId' = hypercardId /\ isOpen')
          => generationStatus' = generationStatus]_vars

\* C6: after a poll response with status completed or failed has been
\* processed for the current job, no polling timer is active for it and no
\* further status request is issued for it.
C6_TerminalStopsPolling ==
    /\ [](\A j \in Jobs : (hypercardId = j /\ j \in terminalSeen)
             => (j \notin timers /\ pollingIntervalRef = Null))
    /\ [][\A j \in Jobs : (hypercardId = j /\ j \in terminalSeen)
             => Outstanding(j)' <= Outstanding(j)]_vars

\* C7: for every job the creator invokes onSuccess exactly once when the job
\* completes: at least once after a completed response was processed, and
\* never twice for the same job id.
C7_OnSuccessExactlyOnce ==
    /\ \A j \in Jobs : onSuccessCalls[j] <= 1
    /\ (IsPoll(last) /\ last.status = "completed") => onSuccessCalls[last.job] >= 1

\* C8: when the completed response (word count w) of the tracked job has been
\* processed, after zero or more generating responses, the creator has status
\* completed, wordCount w, the preview of that response, no htnProgress, and
\* the polling timer is cancelled.
C8_CompletedEndState ==
    (IsPoll(last) /\ last.status = "completed" /\ last.job = hypercardId)
        => /\ generationStatus = "completed"
           /\ wordCount = ResultOf(last.job).word_count
           /\ preview = ResultOf(last.job).preview
           /\ htnProgress = None
           /\ pollingIntervalRef = Null
           /\ last.job \notin timers

\* C9: when a poll returns failed, the creator is failed, htnProgress is
\* cleared, the timer is cancelled, and the failure is surfaced exactly once
\* (error set, one error notification).
C9_FailedEndState ==
    /\ (IsPoll(last) /\ last.status = "failed" /\ last.job = hypercardId)
          => /\ generationStatus = "failed"
             /\ htnProgress = None
             /\ error = ErrFailed
             /\ pollingIntervalRef = Null
             /\ last.job \notin timers
             /\ failNotifications[last.job] >= 1
    /\ \A j \in Jobs : failNotifications[j] <= 1

\* C10: a transient poll failure (fetch throws, or a non-2xx status answer)
\* leaves generationStatus, htnProgress, wordCount, preview and error
\* unchanged, cancels no timer (after a first poll the interval is installed
\* all the same), and is not notified as a job failure.
C10_TransientPollKeepsState ==
    [][(IsPoll(last') /\ last'.status \in Transient)
          => /\ UNCHANGED <<generationStatus, htnProgress, wordCount, preview,
                           error, showProgressModal, hypercardId>>
             /\ timers \subseteq timers'
             /\ IF last'.act = "pollFirst"
                THEN last'.job \in timers' /\ pollingIntervalRef' = last'.job
                ELSE pollingIntervalRef' = pollingIntervalRef
             /\ UNCHANGED <<failNotifications, onSuccessCalls>>]_vars

\* A non-2xx answer to a tick's request has just been processed while the job
\* is tracked, generating with a progress snapshot, and its interval is live.
C10_Witness ==
    /\ last = Event("pollTick", hypercardId, "http_error")
    /\ hypercardId # Null
    /\ generationStatus = "generating"
    /\ htnProgress # None
    /\ hypercardId \in timers
    /\ pollingIntervalRef = hypercardId

\* C11: the id of the tracked job, once assigned, never changes to another
\* value until the creator is reset, whatever the user does meanwhile.
C11_JobIdImmutable ==
    [][(hypercardId # Null /\ isOpen') => hypercardId' = hypercardId]_vars

\* C12: in every reachable state the result fields are populated only for a
\* completed job.
C12_ResultOnlyWhenCompleted ==
    (wordCount # Null \/ preview # NoPreview) => generationStatus = "completed"

\* C13: right after a reset (isOpen becoming false), from any state, no polling
\* timer is left, hypercardId is null, generationStatus is idle, and
\* htnProgress, wordCount, preview and error are null.
C13_ResetFromAnyState ==
    [][(isOpen /\ ~isOpen')
          => (Idle' /\ error' = None /\ pollingIntervalRef' = Null /\ timers' = {})]_vars

\* C15: at most one polling interval is live at any time, and
\* pollingIntervalRef refers to it.
C15_SingleReferencedTimer ==
    /\ Cardinality(timers) <= 1
    /\ timers # {} => timers = {pollingIntervalRef}

SignerFailed == Event("submitError", Null, "sign")
PurchaseRejected == Event("submitError", Null, "post")
PostOps(B) == SumCopies({s \in BagToSet(B) : s.stage = "post"}, B)

\* C19: when buildAndSignPaymentHeader yields no header, no purchase POST is
\* sent, no job handle is assigned, no timer is started, an idle creator stays
\* idle, isLoading is false and the error is surfaced.
C19_SignerFailureAborts ==
    [][last' = SignerFailed
          => /\ PostOps(submits') <= PostOps(submits)
             /\ UNCHANGED <<hypercardId, pollingIntervalRef, timers, polls, backend>>
             /\ Idle => Idle'
             /\ ~isLoading'
             /\ error' # None]_vars

\* The signer was cancelled on an open, idle creator: nothing is pending,
\* nothing is tracked, the error is shown.
C19_Witness ==
    /\ last = SignerFailed
    /\ isOpen /\ Idle /\ ~isLoading
    /\ error = ErrSigning
    /\ submits = EmptyBag /\ polls = EmptyBag /\ timers = {}

\* C20: when the backend rejects the purchase POST, the creator is Idle
\* afterwards (status idle, no job handle, no timer) and the error is the
\* backend's detail / message text.
C20_RejectedPurchaseIdle ==
    [][(last' = PurchaseRejected /\ error' # FormatErrorMessage(ErrNetwork))
          => /\ Idle' /\ timers' = {} /\ pollingIntervalRef' = Null
             /\ error' \in {ErrDetail, ErrCreate}]_vars

FormQueries == {[pad |-> p, core |-> c] : p \in {0, 2}, c \in {0, 2, 3, 498, 500, 501}}
FormPrices == {Undef, Num(0), Num(9990)}
FormBodies == {[current |-> Num(9990), base |-> Num(2000)],
               [current |-> Undef, base |-> Num(2000)],
               [current |-> Num(0), base |-> Num(0)]}
FormOps == {[stage |-> st, amount |-> a] :
               st \in {"price", "sign", "post"}, a \in {0, 200, 999}}

\* handleKeyDown, lines 319-333, for every Enter pressed while the modal is
\* open: handleSubmit runs only under the guard of line 325.
HandleKeyDown(connected, price) ==
    /\ isOpen
    /\ Created + Suspended < MaxJobs
    /\ IF isQueryValid /\ ~isLoading /\ ~isSigningPayment
       THEN HandleSubmit(connected, price)
       ELSE UNCHANGED <<error, isLoading, submits>>
    /\ last' = Event("enter", Null, IF isQueryValid THEN "valid" ELSE "invalid")
    /\ UNCHANGED <<isOpen, userQuery, result, timer, polls, backend, ghosts>>
    /\ UNCHANGED <<postcard, feed>>

NextForm ==
    \/ Open
    \/ \E q \in FormQueries : SetUserQuery(q)
    \/ HandleClose
    \/ ViewCard
    \/ \E c \in BOOLEAN, p \in FormPrices : HandleKeyDown(c, p)
    \/ \E p \in FormPrices : ClickCreate(p)
    \/ \E s \in FormOps : PriceFails(s)
    \/ \E s \in FormOps, b \in FormBodies : PriceArrives(s, b)
    \/ \E s \in FormOps : SignFails(s)
    \/ \E s \in FormOps : SignArrives(s)
    \/ \E s \in FormOps, msg \in {ErrNetwork, ErrDetail, ErrCreate} : PurchaseFails(s, msg)
    \/ \E s \in FormOps : PurchaseCompleted(s)

SpecForm == Init /\ [][NextForm]_vars

\* C16: an Enter pressed on an invalid theme text is rejected with a
\* validation error and starts nothing: no price fetch, no signer call, no
\* purchase POST, no job.
C16_InvalidSubmitRejected ==
    [][(last'.act = "enter" /\ last'.status = "invalid")
          => /\ error' # None
             /\ submits' = submits
             /\ UNCHANGED <<hypercardId, backend>>]_vars

\* The theme text passes the rule: trimmed, 3 to 500 characters.
Rule(q) == MinQueryLen <= TrimLength(q) /\ TrimLength(q) <= MaxQueryLen

C18_SignerOnlyForPositiveAmount ==
    \A s \in BagToSet(submits) : s.stage \in {"sign", "post"} => s.amount > 0

\* Suspended submissions that wait for the signer.
SignOps(B) == SumCopies({s \in BagToSet(B) : s.stage = "sign"}, B)

\* The signer is asked for this amount, in cents.
AsksSigner(cents) == submits' = submits (+) One([stage |-> "sign", amount |-> cents])

\* C21: a submission with a dataroomPrice that is defined and above zero asks
\* the signer for that price, any other fetches the dataroom; the answer of
\* the fetch is replaced by a signer request for the current price when that
\* is positive and for the base price otherwise; a failed fetch ends the
\* submission with no signer request and no purchase POST.
C21_EffectivePrice ==
    [][/\ \A p \in FormPrices :
             ClickCreate(p) =>
                 IF p.kind = "num" /\ p.mills > 0
                 THEN AsksSigner((p.mills + 5) \div 10)
                 ELSE submits' = submits (+) One([stage |-> "price", amount |-> 0])
       /\ \A s \in FormOps, b \in FormBodies :
             PriceArrives(s, b) =>
                 LET price == IF b.current.kind = "num" /\ b.current.mills > 0
                              THEN b.current ELSE b.base
                 IN  submits' (-) One([stage |-> "sign", amount |-> (price.mills + 5) \div 10])
                        = submits (-) One(s)
       /\ \A s \in FormOps :
             PriceFails(s) =>
                 /\ SignOps(submits') = SignOps(submits)
                 /\ PostOps(submits') = PostOps(submits)
                 /\ BagCardinality(submits') = BagCardinality(submits) - 1
                 /\ error' = ErrBonfire /\ ~isLoading'
                 /\ UNCHANGED <<hypercardId, backend>>]_vars

\* The dataroom answered with no positive current price and a base price of
\* 2.00: the signer is asked for 2.00.
C21_Witness ==
    /\ \E s \in BagToSet(submits) : s.stage = "sign" /\ s.amount = 200
    /\ isLoading /\ error = None

\* C22: a successful purchase stores the returned id and status; with status
\* completed it stores the result and starts no polling (no status request,
\* no timer); with status generating it sends the first status request for
\* exactly the returned id.
C22_SuccessfulSubmission ==
    [][/\ \A s \in SubmitOps :
             PurchaseCompleted(s) =>
                 /\ hypercardId' # Null
                 /\ backend[hypercardId'].status = "none"
                 /\ generationStatus' = backend'[hypercardId'].status
                 /\ generationStatus' = "completed"
                 /\ wordCount' = backend'[hypercardId'].result.word_count
                 /\ preview' = backend'[hypercardId'].result.preview
                 /\ UNCHANGED <<polls, timers, pollingIntervalRef>>
       /\ \A s \in SubmitOps, h \in Progress \cup {None} :
             PurchaseGenerating(s, h) =>
                 /\ hypercardId' # Null
                 /\ backend[hypercardId'].status = "none"
                 /\ generationStatus' = backend'[hypercardId'].status
                 /\ generationStatus' = "generating"
                 /\ polls' = polls (+) One([job |-> hypercardId', first |-> TRUE,
                                           sent |-> "generating"])]_vars

\* The purchase was answered completed: the result is stored and nothing polls.
C22_Witness ==
    /\ isOpen /\ hypercardId # Null
    /\ generationStatus = "completed"
    /\ wordCount = ResultOf(hypercardId).word_count
    /\ terminalSeen = {}
    /\ polls = EmptyBag /\ timers = {} /\ pollingIntervalRef = Null

\* C23: on entry to polling the first status request is sent at once, with
\* no interval installed for the job; the interval is installed, and its
\* handle stored, only when that first request has settled, and requests of
\* the interval follow only then.
C23_FirstPollThenInterval ==
    [][/\ \A s \in SubmitOps, h \in Progress \cup {None} :
             PurchaseGenerating(s, h) =>
                 /\ CopiesIn(FirstPoll(hypercardId'), polls')
                       = CopiesIn(FirstPoll(hypercardId'), polls) + 1
                 /\ hypercardId' \notin timers'
       /\ \A r \in BagToSet(polls') :
             r.first => /\ r.job \notin timers'
                        /\ \A q \in BagToSet(polls') : q.job = r.job => q.first
       /\ (IsPoll(last') /\ last'.act = "pollFirst")
             => /\ last'.job \notin timers
                /\ last'.job \in timers'
                /\ pollingIntervalRef' = last'.job]_vars

\* The first request has settled with status generating and the interval of
\* the job is installed.
C23_Witness ==
    /\ last.act = "pollFirst" /\ last.status = "generating"
    /\ hypercardId = last.job
    /\ timers = {hypercardId} /\ pollingIntervalRef = hypercardId
    /\ polls = EmptyBag

\* C24: a generating status response with a progress payload stores the
\* payload as htnProgress; one without a payload leaves htnProgress as it was.
C24_ProgressPayload ==
    [][\A r \in PollOps, h \in Progress \cup {None} :
          PollGenerating(r, h) =>
              htnProgress' = IF h \in Progress THEN h ELSE htnProgress]_vars

\* A generating response was processed and a progress snapshot is stored.
C24_Witness ==
    /\ IsPoll(last) /\ last.status = "generating" /\ last.act = "pollTick"
    /\ hypercardId = last.job
    /\ htnProgress \in Progress

\* C30: at most one submission is in progress at any time, and none is
\* started while a job is tracked.
C30_OneSubmission ==
    [][/\ BagCardinality(submits') <= 1
       /\ hypercardId # Null => BagCardinality(submits') <= BagCardinality(submits)]_vars

\* ---------------------------------------------------------------- liveness
\* The creator while the modal stays open, with a service that answers every
\* status request and finishes every job: the interval keeps firing, answers
\* keep arriving.
PollAnswered ==
    \E r \in PollOps, h \in Progress \cup {None} :
        PollGenerating(r, h) \/ PollCompleted(r, h) \/ PollFailed(r, h)
IntervalFires == \E t \in Jobs : Tick(t)
BackendDecides == \E j \in Jobs : BackendCompletes(j) \/ BackendFails(j)

NextLive ==
    \/ Open
    \/ \E q \in Queries : SetUserQuery(q)
    \/ CloseProgressModal
    \/ \E p \in DataroomPrices : ClickCreate(p)
    \/ \E c \in BOOLEAN, p \in DataroomPrices : PressEnter(c, p)
    \/ \E s \in SubmitOps, b \in DataroomBodies : PriceArrives(s, b)
    \/ \E s \in SubmitOps : SignArrives(s)
    \/ \E s \in SubmitOps, h \in Progress \cup {None} : PurchaseGenerating(s, h)
    \/ PollAnswered
    \/ IntervalFires
    \/ BackendDecides

SpecLive ==
    /\ Init
    /\ [][NextLive]_vars
    /\ WF_vars(PollAnswered)
    /\ WF_vars(IntervalFires)
    /\ WF_vars(BackendDecides)

\* C25: when the job that stays tracked has ended at the service, the creator
\* eventually shows its terminal status, and from then on no interval is
\* active.
C25_PollingEnds ==
    \A j \in Jobs :
        <>[](hypercardId = j /\ backend[j].status \in Terminal)
            => <>(/\ hypercardId = j
                  /\ backend[j].status \in Terminal
                  /\ generationStatus = backend[j].status
                  /\ [](timers = {}))

\* ---------------------------------------------------------------- asset routes
\* Asset requests under way at once.
MaxCalls == 2

\* POST /api/hyperblogs/[hyperblogId]/banner and POST /api/hypercards/[cardId]/image
Routes == {"banner", "image"}

\* How the call of a route to the Delve backend can end: the 90 s / 30 s
\* AbortSignal.timeout fires, the connection fails (TypeError "fetch
\* failed"), the backend answers with a status code, or it answers 2xx with
\* a body that is not JSON.
Http(code) == [kind |-> "http", code |-> code]
Failure(kind) == [kind |-> kind, code |-> 0]
NoOutcome == Failure("none")
Outcomes == {Failure("timeout"), Failure("connect"), Failure("badbody"),
             Http(200), Http(201), Http(404), Http(502)}

\* response.ok
Ok(code) == 200 <= code /\ code <= 299

\* The url in the body of a backend answer
BannerOf(route) == <<"banner_url", route>>
NoBody == <<>>

\* The Error a failed backend call throws: its name, and whether its message
\* contains "fetch".
Thrown(o) ==
    IF o.kind = "timeout" THEN [name |-> "TimeoutError", fetch |-> FALSE]
    ELSE IF o.kind = "connect" THEN [name |-> "TypeError", fetch |-> TRUE]
    ELSE [name |-> "SyntaxError", fetch |-> FALSE]

\* The catch blocks of the routes, lines 279-297 and 381-399.
CatchStatus(e) ==
    IF e.name = "TimeoutError" THEN 503
    ELSE IF e.fetch THEN 503
    ELSE 500

\* The answer of a route, lines 237-298 and 351-400.
RouteReply(route, o) ==
    IF o.kind = "http"
    THEN IF Ok(o.code)
         THEN [status |-> 200, body |-> BannerOf(route)]
         ELSE [status |-> o.code, body |-> NoBody]
    ELSE [status |-> CatchStatus(Thrown(o)), body |-> NoBody]

Call(from, route) ==
    [from |-> from, route |-> route, stage |-> "backend", outcome |-> NoOutcome,
     status |-> 0, body |-> NoBody]
Reply(c, o) ==
    [from |-> c.from, route |-> c.route, stage |-> "reply", outcome |-> o,
     status |-> RouteReply(c.route, o).status, body |-> RouteReply(c.route, o).body]

CallOps == {Call(f, r) : f \in {"client", "postcard"}, r \in Routes}
ReplyOps == {Reply(c, o) : c \in CallOps, o \in Outcomes}

\* Some page posts to an asset route.
ClientPosts(route) ==
    /\ BagCardinality(calls) < MaxCalls
    /\ calls' = calls (+) One(Call("client", route))
    /\ last' = Event("post", Null, route)
    /\ UNCHANGED <<blog, bannerUrl, isBannerLoading, bannerError, hasAttemptedAutoGenerate>>
    /\ UNCHANGED <<creator, feed>>

\* The backend call of a route ends and the route answers.
RouteAnswers(c, o) ==
    /\ c \in BagToSet(calls) /\ c.stage = "backend"
    /\ calls' = (calls (-) One(c)) (+) One(Reply(c, o))
    /\ last' = Event("route", Null, o.kind)
    /\ UNCHANGED <<blog, bannerUrl, isBannerLoading, bannerError, hasAttemptedAutoGenerate>>
    /\ UNCHANGED <<creator, feed>>

\* The page receives the answer.
ClientReceives(c) ==
    /\ c \in BagToSet(calls) /\ c.stage = "reply" /\ c.from = "client"
    /\ calls' = calls (-) One(c)
    /\ last' = Event("received", Null, c.route)
    /\ UNCHANGED <<blog, bannerUrl, isBannerLoading, bannerError, hasAttemptedAutoGenerate>>
    /\ UNCHANGED <<creator, feed>>

\* ---------------------------------------------------------------- postcard
\* A banner_url the card may already carry.
Stored == <<"banner_url", "stored">>

\* The front of the postcard shows the image (line 217), not the placeholder.
ShowsImage == bannerUrl # None /\ ~bannerError

\* Postcard requests that wait for the route.
Issued(B) == SumCopies({c \in BagToSet(B) : c.from = "postcard" /\ c.stage = "backend"}, B)

\* generateBanner up to its await, lines 45-55, called in a render with this
\* bannerUrl and isBannerLoading: whether it sends the request.
Generates(url, loading) == ~(url # None \/ loading)

\* The condition of the auto-generate effect, line 81, for a render with
\* these values.
AutoGenerates(attempted, url, loading) ==
    /\ ~attempted
    /\ blog.image_prompt
    /\ blog.banner_url = None
    /\ url = None
    /\ ~loading

\* The component mounts (lines 36-40) and the auto-generate effect of lines
\* 79-90 runs.
MountPostcard(prompt, url) ==
    /\ ~blog.mounted
    /\ blog' = [mounted |-> TRUE, image_prompt |-> prompt, banner_url |-> url]
    /\ bannerUrl' = url
    /\ bannerError' = FALSE
    /\ IF ~hasAttemptedAutoGenerate /\ prompt /\ url = None
       THEN /\ hasAttemptedAutoGenerate' = TRUE
            /\ isBannerLoading' = TRUE
            /\ calls' = calls (+) One(Call("postcard", "image"))
       ELSE UNCHANGED <<hasAttemptedAutoGenerate, isBannerLoading, calls>>
    /\ last' = Event("mount", Null, "none")
    /\ UNCHANGED <<creator, feed>>

\* The image request succeeds, lines 63-66 and 70-72.
ImageArrives(c) ==
    /\ c \in BagToSet(calls) /\ c.stage = "reply" /\ c.from = "postcard"
    /\ Ok(c.status)
    /\ calls' = calls (-) One(c)
    /\ bannerUrl' = c.body
    /\ isBannerLoading' = FALSE
    /\ last' = Event("image", Null, "ok")
    /\ UNCHANGED <<blog, bannerError, hasAttemptedAutoGenerate>>
    /\ UNCHANGED <<creator, feed>>

\* The image request fails (the answer is not ok, or fetch throws), lines
\* 57-61 and 67-72; in the render that follows, the auto-generate effect runs
\* again (its dependencies bannerUrl, isBannerLoading, generateBanner changed).
ImageFails(c) ==
    /\ c \in BagToSet(calls) /\ c.from = "postcard"
    /\ c.stage = "reply" => ~Ok(c.status)
    /\ IF AutoGenerates(hasAttemptedAutoGenerate, bannerUrl, FALSE)
       THEN /\ hasAttemptedAutoGenerate' = TRUE
            /\ isBannerLoading' = TRUE
            /\ bannerError' = FALSE
            /\ calls' = (calls (-) One(c)) (+) One(Call("postcard", "image"))
       ELSE /\ bannerError' = TRUE
            /\ isBannerLoading' = FALSE
            /\ calls' = calls (-) One(c)
            /\ UNCHANGED hasAttemptedAutoGenerate
    /\ last' = Event("image", Null, "failed")
    /\ UNCHANGED <<blog, bannerUrl>>
    /\ UNCHANGED <<creator, feed>>

\* The Retry button, lines 229-243.
ClickRetry ==
    /\ blog.mounted
    /\ ~isBannerLoading /\ ~ShowsImage /\ bannerError
    /\ bannerError' = FALSE
    /\ hasAttemptedAutoGenerate' = FALSE
    /\ IF Generates(bannerUrl, isBannerLoading)
       THEN /\ isBannerLoading' = TRUE
            /\ calls' = calls (+) One(Call("postcard", "image"))
       ELSE UNCHANGED <<isBannerLoading, calls>>
    /\ last' = Event("click", Null, "retry")
    /\ UNCHANGED <<blog, bannerUrl>>
    /\ UNCHANGED <<creator, feed>>

\* The Generate Image buttons, lines 245-250 (placeholder) and 375-381
\* (action bar).
ClickGenerate ==
    /\ blog.mounted
    /\ blog.image_prompt
    /\ ~isBannerLoading
    /\ \/ ~ShowsImage /\ ~bannerError
       \/ bannerUrl = None
    /\ IF Generates(bannerUrl, isBannerLoading)
       THEN /\ isBannerLoading' = TRUE
            /\ bannerError' = FALSE
            /\ calls' = calls (+) One(Call("postcard", "image"))
       ELSE UNCHANGED <<isBannerLoading, bannerError, calls>>
    /\ last' = Event("click", Null, "generate")
    /\ UNCHANGED <<blog, bannerUrl, hasAttemptedAutoGenerate>>
    /\ UNCHANGED <<creator, feed>>

\* onError of the image, line 222.
ImageLoadError ==
    /\ blog.mounted
    /\ ~isBannerLoading /\ ShowsImage
    /\ bannerError' = TRUE
    /\ last' = Event("image", Null, "onError")
    /\ UNCHANGED <<blog, bannerUrl, isBannerLoading, hasAttemptedAutoGenerate, calls>>
    /\ UNCHANGED <<creator, feed>>

NextImage ==
    \/ \E r \in Routes : ClientPosts(r)
    \/ \E c \in CallOps, o \in Outcomes : RouteAnswers(c, o)
    \/ \E c \in ReplyOps : ClientReceives(c)
    \/ \E prompt \in BOOLEAN, url \in {None, Stored} : MountPostcard(prompt, url)
    \/ \E c \in ReplyOps : ImageArrives(c)
    \/ \E c \in CallOps \cup ReplyOps : ImageFails(c)
    \/ ClickRetry
    \/ ClickGenerate
    \/ ImageLoadError

SpecImage == Init /\ [][NextImage]_vars

\* C26: a route answers 503 when its backend call timed out and 500 on every
\* other unexpected failure; a backend answer that is not 2xx is passed on
\* with the backend's status code, and a 2xx one gives 200 with the backend's
\* body.
C26_RouteStatus ==
    \A c \in BagToSet(calls) :
        c.stage = "reply" =>
            /\ c.outcome.kind = "timeout" => c.status = 503
            /\ c.outcome.kind \in {"connect", "badbody"} => c.status = 500
            /\ (c.outcome.kind = "http" /\ ~(200 <= c.outcome.code /\ c.outcome.code <= 299))
                  => c.status = c.outcome.code
            /\ (c.outcome.kind = "http" /\ 200 <= c.outcome.code /\ c.outcome.code <= 299)
                  => (c.status = 200 /\ c.body = BannerOf(c.route))

\* C27: the postcard sends an image request on its own at most once, when it
\* mounts; every other image request is sent by a click on Retry or Generate
\* Image, and a click sends at most one.
C27_AutoGenerateOnce ==
    [][/\ Issued(calls') > Issued(calls) => last'.act \in {"mount", "click"}
       /\ (last'.act = "image" /\ last'.status = "failed") => Issued(calls') = 0
       /\ Issued(calls') <= Issued(calls) + 1]_vars

\* ---------------------------------------------------------------- feed
\* List requests the feed starts.
MaxRequests == 4
\* initialLimit / currentLimit: cards per page.
PageLimit == 2

\* The cards of the backend, newest first, and those a status filter keeps.
Catalogue(filter) == IF filter = None THEN <<1, 2, 3, 4>> ELSE <<2, 4>>
Filters == {None, "completed"}

Min(a, b) == IF a < b THEN a ELSE b

\* data.hyperblogs and data.count of GET ...?limit=&offset=
Page(filter, offset) ==
    SubSeq(Catalogue(filter), offset + 1, Min(offset + PageLimit, Len(Catalogue(filter))))
Count(filter) == Len(Catalogue(filter))

Ids(seq) == {seq[i] : i \in 1 .. Len(seq)}

\* data.hyperblogs.filter(c => !existingIds.has(c.id)), lines 188-189
RECURSIVE NotIn(_, _)
NotIn(seq, ids) ==
    IF seq = <<>> THEN <<>>
    ELSE IF Head(seq) \in ids THEN NotIn(Tail(seq), ids)
    ELSE <<Head(seq)>> \o NotIn(Tail(seq), ids)

ListRequest(id, offset, append, filter) ==
    [id |-> id, offset |-> offset, append |-> append, filter |-> filter, aborted |-> FALSE]

hasMore == Len(cards) < totalCount
Mounted == started > 0

\* fetchCards up to its await, lines 138-179: the controller in the ref is
\* aborted, a new one is stored, the loading flag is set and the error
\* cleared, the request is sent.
FetchCards(offset, append, filter) ==
    /\ started < MaxRequests
    /\ listRequests' =
          {IF r.id = abortControllerRef THEN [r EXCEPT !.aborted = TRUE] ELSE r :
              r \in listRequests}
          \cup {ListRequest(started + 1, offset, append, filter)}
    /\ abortControllerRef' = started + 1
    /\ started' = started + 1
    /\ IF append
       THEN isLoadingMore' = TRUE /\ UNCHANGED feedLoading
       ELSE feedLoading' = TRUE /\ UNCHANGED isLoadingMore
    /\ feedError' = FALSE

\* The finally block of fetchCards, lines 223-227.
Finally ==
    /\ feedLoading' = FALSE
    /\ isLoadingMore' = FALSE
    /\ abortControllerRef' = Null

\* The feed mounts: the initial load effect, lines 235-244.
MountFeed ==
    /\ ~Mounted
    /\ FetchCards(0, FALSE, selectedStatusFilter)
    /\ last' = Event("fetch", started + 1, "mount")
    /\ UNCHANGED <<cards, cardsRef, currentOffset, totalCount, selectedStatusFilter>>
    /\ UNCHANGED <<creator, postcard>>

\* The status filter changes (line 532) and the filter-change effect runs,
\* lines 249-264.
ChangeFilter(f) ==
    /\ Mounted
    /\ f # selectedStatusFilter
    /\ cardsRef = cards
    /\ selectedStatusFilter' = f
    /\ FetchCards(0, FALSE, f)
    /\ last' = Event("fetch", started + 1, "filter")
    /\ UNCHANGED <<cards, cardsRef, currentOffset, totalCount>>
    /\ UNCHANGED <<creator, postcard>>

\* The auto-refresh interval fires, lines 275-278.
AutoRefresh ==
    /\ Mounted
    /\ FetchCards(0, FALSE, selectedStatusFilter)
    /\ last' = Event("fetch", started + 1, "refresh")
    /\ UNCHANGED <<cards, cardsRef, currentOffset, totalCount, selectedStatusFilter>>
    /\ UNCHANGED <<creator, postcard>>

\* The Load More button (lines 775-777) and handleLoadMore, lines 290-302,
\* clicked when the 300 ms of the debounce have passed.
HandleLoadMore ==
    /\ Mounted
    /\ hasMore /\ ~feedLoading /\ ~isLoadingMore
    /\ cardsRef = cards
    /\ FetchCards(currentOffset + PageLimit, TRUE, selectedStatusFilter)
    /\ last' = Event("fetch", started + 1, "more")
    /\ UNCHANGED <<cards, cardsRef, currentOffset, totalCount, selectedStatusFilter>>
    /\ UNCHANGED <<creator, postcard>>

\* The Retry button of the error state (line 570) and handleRetry, 307-310.
HandleRetry ==
    /\ Mounted
    /\ feedError /\ Len(cards) = 0
    /\ cardsRef = cards
    /\ FetchCards(0, FALSE, selectedStatusFilter)
    /\ last' = Event("fetch", started + 1, "retry")
    /\ UNCHANGED <<cards, cardsRef, currentOffset, totalCount, selectedStatusFilter>>
    /\ UNCHANGED <<creator, postcard>>

\* The fetch of an aborted request rejects with AbortError, lines 204-208
\* and 223-227.
AbortSettles(r) ==
    /\ r \in listRequests /\ r.aborted
    /\ listRequests' = listRequests \ {r}
    /\ Finally
    /\ last' = Event("list", r.id, "aborted")
    /\ UNCHANGED <<cards, cardsRef, currentOffset, totalCount, feedError,
                   selectedStatusFilter, started>>
    /\ UNCHANGED <<creator, postcard>>

\* A list request is answered 2xx, lines 181-203 and 223-227.
ListArrives(r) ==
    /\ r \in listRequests /\ ~r.aborted
    /\ listRequests' = listRequests \ {r}
    /\ cards' = IF r.append
                THEN cards \o NotIn(Page(r.filter, r.offset), Ids(cardsRef))
                ELSE Page(r.filter, r.offset)
    /\ totalCount' = Count(r.filter)
    /\ currentOffset' = r.offset
    /\ Finally
    /\ last' = Event("list", r.id, "ok")
    /\ UNCHANGED <<cardsRef, feedError, selectedStatusFilter, started>>
    /\ UNCHANGED <<creator, postcard>>

\* A list request fails (not ok, or fetch throws), lines 176-179 and 204-227.
ListFails(r) ==
    /\ r \in listRequests /\ ~r.aborted
    /\ listRequests' = listRequests \ {r}
    /\ feedError' = TRUE
    /\ Finally
    /\ last' = Event("list", r.id, "failed")
    /\ UNCHANGED <<cards, cardsRef, currentOffset, totalCount,
                   selectedStatusFilter, started>>
    /\ UNCHANGED <<creator, postcard>>

\* The effect that keeps cardsRef in sync runs after the render, lines 127-133.
SyncCardsRef ==
    /\ cardsRef # cards
    /\ cardsRef' = cards
    /\ last' = Event("effect", Null, "cardsRef")
    /\ UNCHANGED <<cards, abortControllerRef, currentOffset, isLoadingMore,
                   feedLoading, totalCount, feedError, selectedStatusFilter,
                   listRequests, started>>
    /\ UNCHANGED <<creator, postcard>>

ListOps ==
    {[id |-> i, offset |-> o, append |-> a, filter |-> f, aborted |-> b] :
        i \in 1 .. MaxRequests, o \in {0, PageLimit}, a \in BOOLEAN,
        f \in Filters, b \in BOOLEAN}

NextFeed ==
    \/ MountFeed
    \/ \E f \in Filters : ChangeFilter(f)
    \/ AutoRefresh
    \/ HandleLoadMore
    \/ HandleRetry
    \/ \E r \in ListOps : AbortSettles(r)
    \/ \E r \in ListOps : ListArrives(r)
    \/ \E r \in ListOps : ListFails(r)
    \/ SyncCardsRef

SpecFeed == Init /\ [][NextFeed]_vars

\* C28: every fetchCards cancels the pending list request: at most one list
\* request that is not aborted is in flight, abortControllerRef names the
\* most recently started request while that is in flight, and the cards
\* shown are those of the most recently started request.
C28_SingleListRequest ==
    /\ Cardinality({r \in listRequests : ~r.aborted}) <= 1
    /\ \A r \in listRequests : (r.id = started /\ ~r.aborted) => abortControllerRef = r.id
    /\ (last.act = "list" /\ last.status = "ok") => last.job = started

\* C29: the cards list never holds the same id twice.
C29_NoDuplicateIds ==
    \A i, j \in 1 .. Len(cards) : i # j => cards[i] # cards[j]

====
